---- MODULE Spec2Model ----
(***************************************************************************)
(* Model of r1portvlan.py: a batch script that loads credentials, obtains  *)
(* one bearer token, then reads a CSV file and issues one HTTP PUT per     *)
(* valid row.                                                              *)
(*                                                                         *)
(* Text is modelled as sequences of one-character strings, so that         *)
(* str.strip, str.startswith, the CSV field split and int() are computed   *)
(* rather than assumed.  Python's None is the value None below.            *)
(***************************************************************************)
EXTENDS Integers, Sequences, FiniteSets, TLC

\* ------------------------------------------------------------------ bounds
MaxLines == 2          \* lines in the CSV file
MaxCredLines == 3      \* lines in the credentials file
MaxSkipLines == 3      \* lines handed to skip_comments on its own
MaxArgv == 3           \* len(sys.argv) ranges over 1..MaxArgv

\* ------------------------------------------------------- program constants
MinVlan == 1
MaxVlan == 4094
UsageArgc == 2

\* --------------------------------------------------------------- strings
None == <<"None">>

Whitespace == {" ", "\t"}

Digits == {"0", "1", "2", "3", "4", "5", "6", "7", "8", "9"}

DigitVal(c) ==
  CASE c = "0" -> 0 [] c = "1" -> 1 [] c = "2" -> 2 [] c = "3" -> 3
    [] c = "4" -> 4 [] c = "5" -> 5 [] c = "6" -> 6 [] c = "7" -> 7
    [] c = "8" -> 8 [] c = "9" -> 9

RECURSIVE lstrip(_)
lstrip(s) ==
  IF s # <<>> /\ Head(s) \in Whitespace THEN lstrip(Tail(s)) ELSE s

RECURSIVE rstrip(_)
rstrip(s) ==
  IF s # <<>> /\ s[Len(s)] \in Whitespace
    THEN rstrip(SubSeq(s, 1, Len(s) - 1))
    ELSE s

strip(s) == rstrip(lstrip(s))

startswith(s, p) == Len(s) >= Len(p) /\ SubSeq(s, 1, Len(p)) = p

\* ---------------------------------------------------------- skip_comments
IsCommentLine(line) == startswith(lstrip(line), <<"#">>)

RECURSIVE skip_comments_filter(_)
skip_comments_filter(lines) ==
  IF lines = <<>> THEN <<>>
  ELSE IF IsCommentLine(Head(lines)) THEN skip_comments_filter(Tail(lines))
  ELSE <<Head(lines)>> \o skip_comments_filter(Tail(lines))

RECURSIVE skip_comments(_)
skip_comments(lines) ==
  IF lines = <<>> THEN <<>>
  ELSE IF IsCommentLine(Head(lines)) THEN skip_comments(Tail(lines))
  ELSE lines

\* ------------------------------------------------------------ CSV reading
FIELDNAMES == <<"venue_id", "ap_serial", "port_id", "vlan_id">>

\* csv.reader on one line without quoting: the fields between the commas;
\* an empty line is the empty record.
RECURSIVE SplitFields(_)
SplitFields(line) ==
  IF \E i \in 1..Len(line) : line[i] = ","
    THEN LET i == CHOOSE k \in 1..Len(line) :
                    line[k] = "," /\ \A j \in 1..(k - 1) : line[j] # ","
         IN <<SubSeq(line, 1, i - 1)>> \o SplitFields(SubSeq(line, i + 1, Len(line)))
    ELSE <<line>>

csv_reader(line) == IF line = <<>> THEN <<>> ELSE SplitFields(line)

\* csv.DictReader.__next__: records that are [] are passed over.
RECURSIVE SkipBlank(_)
SkipBlank(lines) ==
  IF lines # <<>> /\ csv_reader(Head(lines)) = <<>>
    THEN SkipBlank(Tail(lines))
    ELSE lines

\* dict(zip(fieldnames, record)); a missing field maps to restval = None and
\* fields beyond the fourth go under restkey, which nothing reads.
DictRow(record) ==
  [k \in 1..Len(FIELDNAMES) |-> IF k <= Len(record) THEN record[k] ELSE None]

\* ------------------------------------------------------------------ int()
RECURSIVE DigitsValue(_)
DigitsValue(ds) ==
  IF ds = <<>> THEN 0
  ELSE 10 * DigitsValue(SubSeq(ds, 1, Len(ds) - 1)) + DigitVal(ds[Len(ds)])

AllDigits(ds) == ds # <<>> /\ \A i \in 1..Len(ds) : ds[i] \in Digits

\* int(x) for x a str or None: [exc, val].  Surrounding whitespace and one
\* leading sign are accepted; None raises TypeError, any other text
\* ValueError.  (The inputs drawn below hold no "_" digit separators.)
int(x) ==
  IF x = None THEN [exc |-> "TypeError", val |-> 0]
  ELSE LET s == strip(x)
           signed == s # <<>> /\ Head(s) \in {"+", "-"}
           ds == IF signed THEN Tail(s) ELSE s
       IN IF AllDigits(ds)
            THEN [exc |-> "none",
                  val |-> IF signed /\ Head(s) = "-"
                            THEN 0 - DigitsValue(ds) ELSE DigitsValue(ds)]
            ELSE [exc |-> "ValueError", val |-> 0]

\* -------------------------------------------------- the body of the row loop
VlanInRangeOffByOne(v) == MinVlan <= v /\ v <= MaxVlan + 1

VlanInRange(v) == MinVlan <= v /\ v <= MaxVlan

Outcome(kind, reason, venue, ap, port, vlan) ==
  [kind |-> kind, reason |-> reason, venue_id |-> venue, ap_serial |-> ap,
   port |-> port, vlan_id |-> vlan]

\* Lines 152-172 up to the call of configure_ap_port:
\*   kind "configure": the call is made with these arguments;
\*   kind "skip":      the row is reported skipped, reason says why;
\*   kind "raise":     an exception that is neither KeyError nor ValueError
\*                     leaves the row's try statement.
ProcessRow(row) ==
  IF row[1] = None THEN Outcome("raise", "AttributeError", <<>>, <<>>, 0, 0)
  ELSE IF row[2] = None THEN Outcome("raise", "AttributeError", <<>>, <<>>, 0, 0)
  ELSE LET venue_id == strip(row[1])
           ap_serial == strip(row[2])
           port == int(row[3])
           vlan_id == int(row[4])
       IN IF port.exc = "TypeError" THEN Outcome("raise", "TypeError", <<>>, <<>>, 0, 0)
          ELSE IF port.exc = "ValueError" THEN Outcome("skip", "ValueError", <<>>, <<>>, 0, 0)
          ELSE IF vlan_id.exc = "TypeError" THEN Outcome("raise", "TypeError", <<>>, <<>>, 0, 0)
          ELSE IF vlan_id.exc = "ValueError" THEN Outcome("skip", "ValueError", <<>>, <<>>, 0, 0)
          ELSE IF venue_id = <<>> \/ ap_serial = <<>>
            THEN Outcome("skip", "Missing venue_id or ap_serial", <<>>, <<>>, 0, 0)
          ELSE IF ~VlanInRange(vlan_id.val)
            THEN Outcome("skip", "Invalid VLAN ID", <<>>, <<>>, 0, 0)
          ELSE Outcome("configure", "", venue_id, ap_serial, port.val, vlan_id.val)

\* ------------------------------------------------------------------- HTTP
\* requests.Response.raise_for_status raises HTTPError (a RequestException)
\* for a 4xx or 5xx status and for no other.
raise_for_status_5xx_only(status) == 500 <= status /\ status < 600

raise_for_status_never(status) == FALSE

raise_for_status(status) == 400 <= status /\ status < 600

\* ----------------------------------------------------------------- inputs
SeqsUpTo(S, n) == UNION {[1..k -> S] : k \in 0..n}

\* Lines a CSV file is made of.
CsvLineSet ==
  { <<"#", "h">>,                                   \* comment
    <<>>,                                           \* blank line
    <<" ", "V", ",", "A", " ", ",", "2", ",", "4", "0", "9", "4", ",", "x">>,
                                                    \* valid, padded, 5 fields
    <<"V", ",", "A", ",", "1", ",", "4", "0", "9", "5">>,   \* VLAN too large
    <<"V", ",", "A", ",", "1", ",", "0">>,          \* VLAN too small
    <<"V", ",", "A", ",", "x", ",", "0">>,          \* port not a number, VLAN 0
    <<" ", ",", "A", ",", "1", ",", "7">>,          \* venue_id blank
    <<"V", ",", " ", ",", "1", ",", "7">>,          \* ap_serial blank
    <<" ", ",", "A", ",", "1", ",", "0">>,          \* venue_id blank, VLAN 0
    <<",", ",", "1", ",", "x">>,                    \* blank ids, VLAN not a number
    <<"V", ",", "A", ",", "x">>,                    \* 3 fields, port not a number
    <<"V", ",", "A", ",", "1">>,                    \* 3 fields
    <<"V">> }                                       \* 1 field

CsvFiles == SeqsUpTo(CsvLineSet, MaxLines)

CredLineSet == { <<>>, <<"t", " ">> }

CredFiles == SeqsUpTo(CredLineSet, MaxCredLines)

PromptInputs == { <<>>, <<"t">> }

Statuses == {200, 304, 404, 500}

PutStatuses == {200, 304, 500}

Tokens == { None, <<>>, <<"j">> }

\* What the token endpoint can answer: no answer (a transport error), or a
\* status with a body that is not JSON, or a JSON object whose access_token
\* is absent (None), empty or a token.
AuthReplies ==
  {[transport |-> FALSE, status |-> st, json |-> j, access_token |-> t] :
      st \in Statuses, j \in BOOLEAN, t \in Tokens}
  \cup {[transport |-> TRUE, status |-> 0, json |-> FALSE, access_token |-> None]}

PutReplies ==
  {[transport |-> FALSE, status |-> st, json |-> FALSE, access_token |-> None] :
      st \in PutStatuses}
  \cup {[transport |-> TRUE, status |-> 0, json |-> FALSE, access_token |-> None]}

\* ------------------------------------------------------------------ state
VARIABLES
  pc,             \* where main() is
  argv_len,       \* len(sys.argv)
  tenant_id, client_id, client_secret,
  bearer_token,
  csvfile,        \* the lines of the CSV file once it is open
  reader,         \* the lines the DictReader has not consumed yet
  idx,            \* enumerate(reader, 1)
  http,           \* every HTTP request sent so far, in order
  replies,        \* what came back for each of them, in order
  pending,        \* number of HTTP requests sent and not yet answered
  console,        \* what was printed (stdout and sys.exit messages)
  exit_code,
  opened,         \* the input files open() was called on
  cred_len,       \* len(lines) once the credentials file is read, else 0
  skipIn, skipOut, skipDone   \* skip_comments applied on its own

vars == <<pc, argv_len, tenant_id, client_id, client_secret, bearer_token,
          csvfile, reader, idx, http, replies, pending, console, exit_code,
          opened, cred_len, skipIn, skipOut, skipDone>>

skipVars == <<skipIn, skipOut, skipDone>>

Say(kind, i, reason) == [kind |-> kind, idx |-> i, reason |-> reason]

Request(method, venue, ap, port, vlan, i) ==
  [method |-> method, tenant_id |-> tenant_id, client_id |-> client_id,
   client_secret |-> client_secret, venue_id |-> venue, ap_serial |-> ap,
   port |-> port, vlan_id |-> vlan, token |-> bearer_token, idx |-> i]

\* sys.exit(code or message), or an exception nothing catches.
Exit(code, kind, i, reason) ==
  /\ pc' = "exited"
  /\ exit_code' = code
  /\ console' = Append(console, Say(kind, i, reason))

InitMain ==
  /\ pc = "start"
  /\ tenant_id = None /\ client_id = None /\ client_secret = None
  /\ bearer_token = None
  /\ csvfile = None /\ reader = <<>> /\ idx = 0
  /\ http = <<>> /\ replies = <<>> /\ pending = 0 /\ console = <<>>
  /\ exit_code = 0 /\ opened = {} /\ cred_len = 0

Init ==
  /\ InitMain
  /\ argv_len \in 1..MaxArgv
  /\ skipIn = <<>> /\ skipOut = <<>> /\ skipDone = FALSE

\* ----------------------------------------------------------------- main()
CheckUsageTooFew ==
  /\ pc = "start"
  /\ IF argv_len < UsageArgc
       THEN Exit(1, "usage", 0, "Usage")
       ELSE /\ pc' = "creds"
            /\ UNCHANGED <<console, exit_code>>
  /\ UNCHANGED <<argv_len, tenant_id, client_id, client_secret, bearer_token,
                 csvfile, reader, idx, http, replies, pending, opened,
                 cred_len, skipVars>>

\* Lines 105-113.
CheckUsage ==
  /\ pc = "start"
  /\ IF argv_len # UsageArgc
       THEN Exit(1, "usage", 0, "Usage")
       ELSE /\ pc' = "creds"
            /\ UNCHANGED <<console, exit_code>>
  /\ UNCHANGED <<argv_len, tenant_id, client_id, client_secret, bearer_token,
                 csvfile, reader, idx, http, replies, pending, opened,
                 cred_len, skipVars>>

EnoughLines(lines) == Len(lines) >= 3

\* Lines 116-130: the credentials file exists.  Reading it may fail.
LoadCredentialsFile ==
  /\ pc = "creds"
  /\ opened' = opened \cup {"credentials"}
  /\ \E f \in CredFiles, readable \in BOOLEAN :
       LET lines == [k \in 1..Len(f) |-> strip(f[k])]
       IN IF ~readable
            THEN /\ Exit(1, "fatal", 0, "Error reading credentials file")
                 /\ UNCHANGED <<tenant_id, client_id, client_secret, cred_len>>
          ELSE IF EnoughLines(lines)
            THEN /\ cred_len' = Len(f)
                 /\ tenant_id' = lines[1]
                 /\ client_id' = lines[2]
                 /\ client_secret' = lines[3]
                 /\ pc' = "auth"
                 /\ UNCHANGED <<console, exit_code>>
          ELSE /\ cred_len' = Len(f)
               /\ Exit(1, "fatal", 0, "Credentials file must have at least 3 lines")
               /\ UNCHANGED <<tenant_id, client_id, client_secret>>
  /\ UNCHANGED <<argv_len, bearer_token, csvfile, reader, idx, http, replies,
                 pending, skipVars>>

\* Lines 131-138: no credentials file; the three values are typed in.
PromptCredentials ==
  /\ pc = "creds"
  /\ \E t \in PromptInputs, c \in PromptInputs, s \in PromptInputs :
       /\ tenant_id' = t
       /\ client_id' = c
       /\ client_secret' = s
       /\ IF t = <<>> \/ c = <<>> \/ s = <<>>
            THEN Exit(1, "fatal", 0, "Tenant ID, Client ID, and Client Secret are required")
            ELSE /\ pc' = "auth"
                 /\ UNCHANGED <<console, exit_code>>
  /\ UNCHANGED <<argv_len, bearer_token, csvfile, reader, idx, http, replies,
                 pending, opened, cred_len, skipVars>>

\* Lines 141, 21-31: get_bearer_token sends the POST and waits.
SendTokenRequest ==
  /\ pc = "auth"
  /\ http' = Append(http, Request("POST", <<>>, <<>>, 0, 0, 0))
  /\ pending' = pending + 1
  /\ pc' = "auth_wait"
  /\ UNCHANGED <<argv_len, tenant_id, client_id, client_secret, bearer_token,
                 csvfile, reader, idx, replies, console, exit_code, opened,
                 cred_len, skipVars>>

\* Lines 31-42: the answer to the POST, or the transport's exception.
\* A body that is not JSON makes response.json() raise: a RequestException
\* in requests >= 2.27, a plain ValueError before, which nothing catches.
TokenReply ==
  /\ pc = "auth_wait"
  /\ pending' = pending - 1
  /\ \E r \in AuthReplies :
       /\ replies' = Append(replies, r)
       /\ IF r.transport \/ raise_for_status(r.status)
            THEN /\ Exit(1, "fatal", 0, "Authentication failed")
                 /\ UNCHANGED bearer_token
          ELSE IF ~r.json
            THEN /\ \E how \in {"Authentication failed", "Traceback"} :
                       Exit(1, "fatal", 0, how)
                 /\ UNCHANGED bearer_token
          ELSE IF r.access_token = None \/ r.access_token = <<>>
            THEN /\ Exit(1, "fatal", 0, "No access_token in response")
                 /\ UNCHANGED bearer_token
          ELSE /\ bearer_token' = r.access_token
               /\ pc' = "open_csv"
               /\ UNCHANGED <<console, exit_code>>
  /\ UNCHANGED <<argv_len, tenant_id, client_id, client_secret, csvfile,
                 reader, idx, http, opened, cred_len, skipVars>>

OpenCsvBeforeAuth ==
  /\ pc \in {"auth", "open_csv"}
  /\ opened' = opened \cup {"csv"}
  /\ \E how \in {"ok", "FileNotFoundError", "OSError"} :
       IF how = "ok"
         THEN /\ \E f \in CsvFiles :
                   /\ csvfile' = f
                   /\ reader' = skip_comments(f)
              /\ pc' = "loop"
              /\ UNCHANGED <<console, exit_code>>
       ELSE IF how = "FileNotFoundError"
         THEN /\ Exit(1, "csv_error", 0, "not found")
              /\ UNCHANGED <<csvfile, reader>>
       ELSE /\ Exit(1, "csv_error", 0, "Unexpected error opening CSV")
            /\ UNCHANGED <<csvfile, reader>>
  /\ UNCHANGED <<argv_len, tenant_id, client_id, client_secret, bearer_token,
                 idx, http, replies, pending, cred_len, skipVars>>

\* Lines 147-150, 173-180: open(csv_file) and the reader over skip_comments.
OpenCsv ==
  /\ pc = "open_csv"
  /\ opened' = opened \cup {"csv"}
  /\ \E how \in {"ok", "FileNotFoundError", "OSError"} :
       IF how = "ok"
         THEN /\ \E f \in CsvFiles :
                   /\ csvfile' = f
                   /\ reader' = skip_comments(f)
              /\ pc' = "loop"
              /\ UNCHANGED <<console, exit_code>>
       ELSE IF how = "FileNotFoundError"
         THEN /\ Exit(1, "csv_error", 0, "not found")
              /\ UNCHANGED <<csvfile, reader>>
       ELSE /\ Exit(1, "csv_error", 0, "Unexpected error opening CSV")
            /\ UNCHANGED <<csvfile, reader>>
  /\ UNCHANGED <<argv_len, tenant_id, client_id, client_secret, bearer_token,
                 idx, http, replies, pending, cred_len, skipVars>>

\* Lines 151-172 and 177-180: one turn of the for loop, up to the PUT of
\* configure_ap_port (lines 49-69) when the row gets that far.  When the
\* reader is exhausted main() returns and the interpreter exits with 0.
NextRow ==
  /\ pc = "loop"
  /\ LET rest == SkipBlank(reader)
     IN IF rest = <<>>
          THEN /\ pc' = "exited"
               /\ exit_code' = 0
               /\ reader' = <<>>
               /\ UNCHANGED <<idx, http, pending, console>>
        ELSE LET row == DictRow(csv_reader(Head(rest)))
                 o == ProcessRow(row)
                 i == idx + 1
             IN /\ reader' = Tail(rest)
                /\ idx' = i
                /\ IF o.kind = "configure"
                     THEN /\ http' = Append(http,
                                Request("PUT", o.venue_id, o.ap_serial, o.port, o.vlan_id, i))
                          /\ pending' = pending + 1
                          /\ pc' = "put_wait"
                          /\ UNCHANGED <<console, exit_code>>
                   ELSE IF o.kind = "skip"
                     THEN /\ console' = Append(console, Say("skip", i, o.reason))
                          /\ UNCHANGED <<pc, exit_code, http, pending>>
                   ELSE /\ Exit(1, "csv_error", i, "Unexpected error opening CSV")
                        /\ UNCHANGED <<http, pending>>
  /\ UNCHANGED <<argv_len, tenant_id, client_id, client_secret, bearer_token,
                 csvfile, replies, opened, cred_len, skipVars>>

\* Lines 65-83: the answer to the PUT, or the transport's exception; then
\* configure_ap_port returns and the loop goes on.
PutReply ==
  /\ pc = "put_wait"
  /\ pending' = pending - 1
  /\ \E r \in PutReplies :
       /\ replies' = Append(replies, r)
       /\ console' = Append(console,
            IF r.transport \/ raise_for_status(r.status)
              THEN Say("failed", idx, "Failed to configure")
              ELSE Say("configured", idx, "Configured"))
  /\ pc' = "loop"
  /\ UNCHANGED <<argv_len, tenant_id, client_id, client_secret, bearer_token,
                 csvfile, reader, idx, http, exit_code, opened, cred_len,
                 skipVars>>

Next ==
  \/ CheckUsage
  \/ LoadCredentialsFile
  \/ PromptCredentials
  \/ SendTokenRequest
  \/ TokenReply
  \/ OpenCsv
  \/ NextRow
  \/ PutReply

Spec == Init /\ [][Next]_vars

\* ------------------------------------------ skip_comments as a pure function
SkipLineSet ==
  { <<>>, <<"#">>, <<" ", "#">>, <<"\t", "#", "a">>, <<"a">>, <<" ", "a">>,
    <<"a", "#">>, <<" ">> }

InitSkip ==
  /\ InitMain
  /\ argv_len = UsageArgc
  /\ skipIn \in SeqsUpTo(SkipLineSet, MaxSkipLines)
  /\ skipOut = <<>> /\ skipDone = FALSE

ApplySkipComments ==
  /\ ~skipDone
  /\ skipOut' = skip_comments(skipIn)
  /\ skipDone' = TRUE
  /\ UNCHANGED <<pc, argv_len, tenant_id, client_id, client_secret,
                 bearer_token, csvfile, reader, idx, http, replies, pending,
                 console, exit_code, opened, cred_len, skipIn>>

NextSkip == ApplySkipComments

SpecSkip == InitSkip /\ [][NextSkip]_vars

\* ================================================================= claims
\* What the claims speak of, stated without the program's own helpers where
\* the claim is about them.

\* The first character of the line that is not whitespace is "#".
HashFirst(line) ==
  \E k \in 1..Len(line) :
    line[k] = "#" /\ \A j \in 1..(k - 1) : line[j] \in Whitespace

\* The length of the run of comment lines the sequence starts with.
LeadingCommentCount(lines) ==
  CHOOSE n \in 0..Len(lines) :
    /\ \A i \in 1..n : HashFirst(lines[i])
    /\ n < Len(lines) => ~HashFirst(lines[n + 1])

\* The records of the file in the order the reader numbers them from 1:
\* the lines after the leading comments, blank lines left out.
DataRecords(lines) ==
  LET n == LeadingCommentCount(lines)
      rest == SubSeq(lines, n + 1, Len(lines))
      data == SelectSeq(rest, LAMBDA l : l # <<>>)
  IN [i \in 1..Len(data) |-> csv_reader(data[i])]

FieldAt(rec, k) == IF k <= Len(rec) THEN rec[k] ELSE None

\* Empty after trimming (a field the record lacks is empty too).
Blank(f) == f = None \/ \A i \in 1..Len(f) : f[i] \in Whitespace

IsInteger(f) == f # None /\ int(f).exc = "none"

VlanOk(rec) ==
  /\ IsInteger(FieldAt(rec, 4))
  /\ 1 <= int(FieldAt(rec, 4)).val /\ int(FieldAt(rec, 4)).val <= 4094

IdsPresent(rec) == ~Blank(FieldAt(rec, 1)) /\ ~Blank(FieldAt(rec, 2))

ValidRecord(rec) == IsInteger(FieldAt(rec, 3)) /\ VlanOk(rec) /\ IdsPresent(rec)

Puts == {k \in 1..Len(http) : http[k].method = "PUT"}

Posts == {k \in 1..Len(http) : http[k].method = "POST"}

Answered(k) == k <= Len(replies)

RowReported(i, kinds) ==
  \E n \in 1..Len(console) : console[n].idx = i /\ console[n].kind \in kinds

C2_BadRowNeverAbortsBatch ==
  (pc = "exited" /\ csvfile # None) =>
    /\ idx = Len(DataRecords(csvfile))
    /\ \A i \in 1..Len(DataRecords(csvfile)) :
         RowReported(i, {"configured", "failed", "skip"})

AuthFailedAsClaimed(r) ==
  \/ r.transport
  \/ ~(200 <= r.status /\ r.status < 300)
  \/ ~r.json \/ r.access_token = None

AuthFailed(r) ==
  \/ r.transport
  \/ (400 <= r.status /\ r.status < 600)
  \/ ~r.json \/ r.access_token = None

RunEndedBeforeCsv ==
  /\ pc = "exited" /\ exit_code # 0
  /\ "csv" \notin opened /\ csvfile = None
  /\ idx = 0 /\ Puts = {}

PutFailedAsClaimed(r) == r.transport \/ ~(200 <= r.status /\ r.status < 300)

PutFailed(r) == r.transport \/ (400 <= r.status /\ r.status < 600)

C4_ReplyStep ==
  (pc = "put_wait" /\ pc' # "put_wait") =>
    /\ pc' = "loop"
    /\ exit_code' = 0
    /\ UNCHANGED <<reader, idx, http, csvfile, bearer_token>>
    /\ Len(replies') = Len(http)
    /\ Len(console') = Len(console) + 1
    /\ console'[Len(console')].idx = idx
    /\ console'[Len(console')].kind =
         IF PutFailed(replies'[Len(replies')]) THEN "failed" ELSE "configured"

C4_ExitZero ==
  (/\ pc = "exited" /\ csvfile # None
   /\ \A i \in 1..Len(DataRecords(csvfile)) :
        RowReported(i, {"configured", "failed", "skip"}))
  => exit_code = 0

FirstFailedCheck(rec) ==
  IF ~IsInteger(FieldAt(rec, 3)) \/ ~IsInteger(FieldAt(rec, 4)) THEN "ValueError"
  ELSE IF ~IdsPresent(rec) THEN "Missing venue_id or ap_serial"
  ELSE IF ~VlanOk(rec) THEN "Invalid VLAN ID"
  ELSE "none"

\* C5: the reason reported for a row is that of the first check it fails:
\* port_id or vlan_id not an integer, then venue_id or ap_serial empty,
\* then vlan_id outside 1..4094; every row that fails a check is reported
\* skipped, under its own index, with that reason and no other.
C5_FirstFailedCheckReported ==
  csvfile # None =>
    \A i \in 1..idx :
      LET want == FirstFailedCheck(DataRecords(csvfile)[i])
          said == {n \in 1..Len(console) : console[n].idx = i}
      IN want # "none" =>
           /\ Cardinality(said) = 1
           /\ \A n \in said : console[n] = Say("skip", i, want)

\* What does hold of C5: for a record with all four fields the report is
\* that of the first failed check.
C5_FourFieldRecords ==
  csvfile # None =>
    \A i \in 1..idx :
      LET rec == DataRecords(csvfile)[i]
          want == FirstFailedCheck(rec)
          said == {n \in 1..Len(console) : console[n].idx = i}
      IN (Len(rec) >= 4 /\ want # "none") =>
           /\ Cardinality(said) = 1
           /\ \A n \in said : console[n] = Say("skip", i, want)

\* C6: the token request is sent only with tenant_id, client_id and
\* client_secret all non-empty, from the credentials file as from the
\* prompt.
C6_AuthOnlyWithFullCredentials ==
  \A k \in Posts :
    /\ http[k].tenant_id \notin {None, <<>>}
    /\ http[k].client_id \notin {None, <<>>}
    /\ http[k].client_secret \notin {None, <<>>}

FatalBeforeAuth == pc = "exited" /\ exit_code # 0 /\ http = <<>>

\* C7: a fatal error before authentication ends the run with a non-zero
\* exit code and without any HTTP request: a command line that is not one
\* argument (exit code 1, neither input file touched), a credentials file
\* of fewer than 3 lines, an empty value typed at the prompt.
C7_FatalBeforeAuth ==
  /\ argv_len # 2 =>
       /\ pc \in {"start", "exited"}
       /\ opened = {} /\ http = <<>>
       /\ pc = "exited" => (exit_code = 1 /\ console = <<Say("usage", 0, "Usage")>>)
  /\ ("credentials" \in opened /\ cred_len < 3) => FatalBeforeAuth
  /\ ("credentials" \notin opened /\ tenant_id # None
        /\ <<>> \in {tenant_id, client_id, client_secret}) => FatalBeforeAuth

\* A credentials file of two lines has been read and the run is over.
C7_Witness == "credentials" \in opened /\ cred_len = 2 /\ pc = "exited"

\* C8: skip_comments yields the input without its leading run of comment
\* lines, every other line unchanged and in order; so the first line
\* yielded is the first that is not a comment, a "#" line after it is
\* yielded like any other, and an input of comment lines only yields
\* nothing.
C8_SkipsLeadingCommentRun ==
  skipDone =>
    LET n == LeadingCommentCount(skipIn)
    IN /\ skipOut = SubSeq(skipIn, n + 1, Len(skipIn))
       /\ skipOut # <<>> => ~HashFirst(skipOut[1])

\* An indented comment line at the head was dropped, and a "#" line after
\* the first data line came through.
C8_Witness ==
  /\ skipDone
  /\ Len(skipIn) >= 3 /\ HashFirst(skipIn[1]) /\ skipIn[1][1] # "#"
  /\ Len(skipOut) = Len(skipIn) - 1 /\ ~HashFirst(skipOut[1])
  /\ HashFirst(skipOut[Len(skipOut)])

\* The two halves of C9.
C9_Ordering ==
  /\ pending \in {0, 1}
  /\ Len(replies) + pending = Len(http)
  /\ Cardinality(Posts) <= 1
  /\ Puts # {} =>
       /\ Posts = {1} /\ Answered(1)
       /\ replies[1].access_token = bearer_token
  /\ \A k \in Puts : http[k].token = bearer_token
  /\ \A k \in Puts, m \in Puts : k < m => http[k].idx < http[m].idx

C9_EachValidRowOneRequest ==
  (pc = "exited" /\ csvfile # None) =>
    \A i \in 1..Len(DataRecords(csvfile)) :
      LET rec == DataRecords(csvfile)[i]
      IN ValidRecord(rec) =>
           /\ Cardinality({k \in Puts : http[k].idx = i}) = 1
           /\ \A k \in Puts : http[k].idx = i =>
                /\ http[k].venue_id = strip(rec[1])
                /\ http[k].ap_serial = strip(rec[2])
                /\ http[k].port = int(rec[3]).val
                /\ http[k].vlan_id = int(rec[4]).val

\* C9: one token request, answered before the first PUT; its token on
\* every PUT; at most one request outstanding; rows in file order; and each
\* valid row gets exactly one PUT, carrying its four values.
C9_OneTokenRowsInOrder == C9_Ordering /\ C9_EachValidRowOneRequest

CsvOpenFailed ==
  \E n \in 1..Len(console) : console[n].kind = "csv_error" /\ console[n].idx = 0

\* C10: the CSV file is opened only once credentials are loaded and the
\* token obtained; when opening it fails the run has sent the token request
\* and nothing else, sends no PUT and exits with code 1.
C10_CsvOpenedAfterAuth ==
  /\ "csv" \in opened =>
       /\ Len(http) >= 1 /\ http[1].method = "POST" /\ Answered(1)
       /\ bearer_token \notin {None, <<>>}
       /\ None \notin {tenant_id, client_id, client_secret}
  /\ CsvOpenFailed =>
       /\ Len(http) = 1 /\ Puts = {}
       /\ pc = "exited" /\ exit_code = 1

C10_Witness == CsvOpenFailed /\ pc = "exited" /\ Len(http) = 1

====
